---- MODULE Spec2Model ----
(***************************************************************************)
(* A model of the J2497 keyhole-mitigation waveform generator:             *)
(*   j2497_common.py   bit framer (preamble, checksum, payload framing)    *)
(*                     and the sample counts of the chirp modulator        *)
(*   j2497_keyhole.py  generate(): the lazy sequence of fixed-period       *)
(*                     door / keyhole / jam frames                         *)
(*                                                                         *)
(* Bits are 0/1, a bit array is a sequence of bits, a byte string is a     *)
(* sequence of 0..255.  An optional argument is None (<<>>) or Some(x)     *)
(* (<<x>>).  A waveform is a sequence of segments; a segment stands for a  *)
(* run of n samples of one kind (chirps of given bits, jam carrier,        *)
(* zeros) scaled by amp.                                                   *)
(*                                                                         *)
(* Times that the source holds as floats are held as exact rationals:      *)
(* delays in tenths of a UART bit time, the keyhole start in 1/1000 us.    *)
(* For the sample rates and delays enumerated here the float results of    *)
(* the source equal the exact ones.                                        *)
(***************************************************************************)
EXTENDS Integers, Sequences, FiniteSets, TLC

VARIABLES
    \* ---- generate(): arguments and locals (j2497_keyhole.py)
    sample_rate, allowed_messages, keyhole_supplier_parameters, period_us,
    calibration_mode,
    pc,              \* position of the generator: created / loop / closing / done / error
    err,             \* which raise ended the generator ("" when none)
    period_samples, jam_amplitude, doors_len, doors_pos, keyhole_count,
    yielded,         \* the frames yielded so far, in order
    \* ---- bit framer calls (j2497_common.py)
    fn,              \* the function applied last ("" before any call)
    payload, checksum, extra_stop_bits, truncate_at_checksum, preamble_mid,
    result,          \* the bit array returned by the call
    \* ---- the driver script (main.py)
    drv_pc,          \* the statement the script is at ("idle": not run)
    init_globals,    \* names bound in the script's namespace besides its imports
    drv_err,         \* the exception that ended the script, "" if none
    drv_proc,        \* the fl2k_file subprocess: "none", "running", "killed", "reaped"
    drv_sink,        \* p.stdin: "none", "open", "closed", or the errno its writes fail with
    frames,          \* len of each element of tuple(chirps_chain)
    rep,             \* the repetition of the tuple the loop is in
    fidx,            \* the index in the tuple of the frame the loop is at
    drv_l, drv_i,    \* l and i of the write loop
    sent,            \* samples of the current frame written to the sink
    chunk,           \* slice bounds of the last chunk written
    swallowed,       \* the errno caught and dropped at lines 74-76, "" if none
    stderr_log       \* messages written to sys.stderr

gen_vars == <<sample_rate, allowed_messages, keyhole_supplier_parameters, period_us,
              calibration_mode, pc, err, period_samples, jam_amplitude, doors_len,
              doors_pos, keyhole_count, yielded>>
framer_vars == <<fn, payload, checksum, extra_stop_bits, truncate_at_checksum,
                 preamble_mid, result>>
drv_vars == <<drv_pc, init_globals, drv_err, drv_proc, drv_sink, frames, rep, fidx, drv_l,
              drv_i, sent, chunk, swallowed, stderr_log>>
vars == <<gen_vars, framer_vars, drv_vars>>

None == <<>>
Some(x) == <<x>>

\* ------------------------------------------------------------------------
\* Bounds of the model
MaxPayloadLen == 2     \* bytes in an enumerated framer payload
MaxExtra == 2          \* largest enumerated extra-stop-bit count
MaxVecLen == 2         \* longest enumerated extra_stop_bits vector
MaxMsgs == 1           \* longest enumerated allowed_messages list
MaxSuppliers == 1      \* longest enumerated supplier list

\* ------------------------------------------------------------------------
\* Generic sequence helpers
Reverse(s) == [i \in 1..Len(s) |-> s[Len(s) + 1 - i]]

RECURSIVE Repeat(_, _)
Repeat(x, n) == IF n <= 0 THEN <<>> ELSE <<x>> \o Repeat(x, n - 1)

RECURSIVE SumSeq(_)
SumSeq(s) == IF s = <<>> THEN 0 ELSE Head(s) + SumSeq(Tail(s))

RECURSIVE Concat(_)
Concat(ss) == IF ss = <<>> THEN <<>> ELSE Head(ss) \o Concat(Tail(ss))

RECURSIVE SeqsUpTo(_, _)
SeqsUpTo(S, n) ==
    IF n = 0 THEN {<<>>}
    ELSE LET shorter == SeqsUpTo(S, n - 1)
         IN  shorter \cup {Append(s, x) : s \in {t \in shorter : Len(t) = n - 1}, x \in S}

\* ========================================================================
\* j2497_common.py : bit framer
\* ========================================================================
INITIAL_PREAMBLE_BITS == <<0, 0>>
SYNC_BITS == <<1, 1, 1, 1, 1>>
START_BITS == <<0>>
STOP_BITS == <<1>>
ENDSYNC_BITS == <<1, 1, 1, 1, 1, 1, 1>>

\* bitstring.BitArray(bytes=...): 8 bits per byte, most significant first
ByteBits(b) == [i \in 1..8 |-> (b \div (2 ^ (8 - i))) % 2]

RECURSIVE BitArray(_)
BitArray(bs) == IF bs = <<>> THEN <<>> ELSE ByteBits(Head(bs)) \o BitArray(Tail(bs))

\* int(s, 2) of a digit string without sign
RECURSIVE IntBase2(_)
IntBase2(s) == IF s = <<>> THEN 0 ELSE 2 * IntBase2(SubSeq(s, 1, Len(s) - 1)) + s[Len(s)]

\* "{0:b}".format(n), n >= 0: binary digits, no leading zeros
RECURSIVE FormatBin(_)
FormatBin(n) == IF n < 2 THEN <<n>> ELSE FormatBin(n \div 2) \o <<n % 2>>

\* '{0:08b}'.format(n), n >= 0: binary digits padded with zeros to width 8
FormatBin08(n) == LET d == FormatBin(n) IN Repeat(0, 8 - Len(d)) \o d

\* A Python integer beyond 32 bits is held as a decimal
\* numeral: [neg |-> sign, mag |-> decimal digits, most significant first].
\* int(s) of a digit string s reads it as that numeral.
IntBase10(s) == [neg |-> FALSE, mag |-> s]

RECURSIVE DecInc(_)
DecInc(d) ==
    IF d = <<>> THEN <<1>>
    ELSE IF d[Len(d)] < 9 THEN SubSeq(d, 1, Len(d) - 1) \o <<d[Len(d)] + 1>>
    ELSE DecInc(SubSeq(d, 1, Len(d) - 1)) \o <<0>>

RECURSIVE StripZeros(_)
StripZeros(d) == IF Len(d) > 1 /\ d[1] = 0 THEN StripZeros(Tail(d)) ELSE d

RECURSIVE DecDecRaw(_)
DecDecRaw(d) ==
    IF d[Len(d)] > 0 THEN SubSeq(d, 1, Len(d) - 1) \o <<d[Len(d)] - 1>>
    ELSE DecDecRaw(SubSeq(d, 1, Len(d) - 1)) \o <<9>>

DecDec(d) == StripZeros(DecDecRaw(d))

\* ~x  =  -x - 1
BigInvert(x) ==
    IF x.neg THEN [neg |-> FALSE, mag |-> DecDec(x.mag)]
    ELSE [neg |-> TRUE, mag |-> DecInc(x.mag)]

\* x + 1
BigAddOne(x) ==
    IF x.neg
    THEN LET m == DecDec(x.mag) IN [neg |-> m # <<0>>, mag |-> m]
    ELSE [neg |-> FALSE, mag |-> DecInc(x.mag)]

\* int(str(x), 2): the sign, then the decimal digits of x read in base 2
\* (the digits met here are 0 and 1)
BigStrIntBase2(x) == IF x.neg THEN 0 - IntBase2(x.mag) ELSE IntBase2(x.mag)

\* get_preamble_bits without mid_bits.reverse()
get_preamble_bits_NoReverse(mid) ==
    START_BITS \o INITIAL_PREAMBLE_BITS \o BitArray(mid) \o STOP_BITS

get_preamble_bits(mid) ==
    LET mid_bits == Reverse(BitArray(mid))
        with_initial == INITIAL_PREAMBLE_BITS \o mid_bits
        with_start == START_BITS \o with_initial
    IN  with_start \o STOP_BITS

\* the loop of get_checksum_bits over range(0, len(msg), 8)
RECURSIVE ChecksumLoop(_, _, _)
ChecksumLoop(msg, n, acc) ==
    IF n >= Len(msg) THEN acc
    ELSE ChecksumLoop(msg, n + 8, acc + IntBase2(SubSeq(msg, n + 1, n + 8)))

\* the flip without "flipped += 1"
TwosComplementFlip_NoAddOne(binint) == BigInvert(binint)

TwosComplementFlip(binint) == BigAddOne(BigInvert(binint))

get_checksum_bits(p) ==
    LET msg == BitArray(p)
        sum == ChecksumLoop(msg, 0, 0)
        binint == IntBase10(FormatBin(sum))
        flipped == TwosComplementFlip(binint)
        intflipped == BigStrIntBase2(flipped)
        wrapped == (intflipped + 256) % 256
    IN  FormatBin08(wrapped)

\* the extra stop bits chosen for the byte being framed (line 78); char_count
\* is the loop's counter as the source maintains it
ExtraStopBit(esb, char_count) ==
    IF char_count > Len(esb) THEN esb[Len(esb)] ELSE esb[char_count + 1]

\* the loop of get_payload_bits over the bytes of the payload; the source
\* never assigns char_count inside the loop
RECURSIVE PayloadLoop(_, _, _)
PayloadLoop(bs, esb, char_count) ==
    IF bs = <<>> THEN <<>>
    ELSE LET b_bits == Reverse(BitArray(<<Head(bs)>>))
             extra_stop_bit == ExtraStopBit(esb, char_count)
         IN  START_BITS \o b_bits \o STOP_BITS
             \o Concat(Repeat(STOP_BITS, extra_stop_bit))
             \o PayloadLoop(Tail(bs), esb, char_count)

\* the checksum byte appended without its stop bit
ChecksumTail_NoStopBit(checksum_bits) ==
    START_BITS \o Reverse(checksum_bits) \o ENDSYNC_BITS

ChecksumTail(checksum_bits) ==
    START_BITS \o Reverse(checksum_bits) \o STOP_BITS \o ENDSYNC_BITS

get_payload_bits(p, csum, esb_arg, trunc) ==
    LET esb == IF esb_arg = None THEN <<0>> ELSE esb_arg[1]
        payload_bits == SYNC_BITS \o PayloadLoop(p, esb, 0)
        checksum_bits == IF csum = None THEN get_checksum_bits(p)
                         ELSE BitArray(csum[1])
    IN  IF trunc THEN payload_bits
        ELSE payload_bits \o ChecksumTail(checksum_bits)

\* ========================================================================
\* Sample counts.  int(t * sample_rate / 1e6) is the floor of the exact
\* quotient; the product is formed in limbs of 1000 so that no intermediate
\* value exceeds 32 bits.
\* ========================================================================
US_PER_SEC == 1000000
UART_BIT_TIME_US_x100 == 10417                \* 104.17 us, i.e. 9600 bps
BODY_BIT_TIME_US == 100
SYNC_SYMBOL_TIME_US == 5 * BODY_BIT_TIME_US
FROM_J2497_OVER_TO_UART_OVER_US_x10 == 483    \* 48.3 us
TIME_AFTER_PAYLOAD_US == (1 + 8 + 1 + 7) * BODY_BIT_TIME_US
MIN_PERIOD_US == 32000
DEFAULT_PERIOD_US == MIN_PERIOD_US
MIN_SAMPLE_RATE == 800000

Max(a, b) == IF a >= b THEN a ELSE b

\* coefficients of a * b in base 1000 (a, b >= 0), least significant first
MulLimbs(a, b) ==
    LET a0 == a % 1000
        a1 == (a \div 1000) % 1000
        a2 == a \div 1000000
        b0 == b % 1000
        b1 == (b \div 1000) % 1000
        b2 == b \div 1000000
    IN  <<a0 * b0, a0 * b1 + a1 * b0, a0 * b2 + a1 * b1 + a2 * b0,
          a1 * b2 + a2 * b1, a2 * b2>>

\* int(a * b / US_PER_SEC) for a, b >= 0
MulDivUS(a, b) ==
    LET c == MulLimbs(a, b)
    IN  (c[1] + c[2] * 1000) \div US_PER_SEC + c[3] + c[4] * 1000 + c[5] * US_PER_SEC

\* (a * b) mod US_PER_SEC for a, b >= 0
MulModUS(a, b) ==
    LET c == MulLimbs(a, b) IN (c[1] + c[2] * 1000) % US_PER_SEC

\* int(a * b / (1000 * US_PER_SEC)) for b >= 0; int() truncates towards zero
MulDivMilliUS(a, b) ==
    LET m == IF a < 0 THEN 0 - a ELSE a
        c == MulLimbs(m, b)
        q == ((c[1] + c[2] * 1000) \div US_PER_SEC + c[3]) \div 1000 + c[4] + c[5] * 1000
    IN  IF a < 0 THEN 0 - q ELSE q

\* ========================================================================
\* j2497_common.py : chirp modulator, as sample counts
\* ========================================================================
Seg(kind, n, amp, bits) == [kind |-> kind, n |-> n, amp |-> amp, bits |-> bits]

\* len(w) of a waveform
WLen(w) == SumSeq([i \in 1..Len(w) |-> w[i].n])

\* a * w for a scalar a
Scale(a, w) == [i \in 1..Len(w) |-> [w[i] EXCEPT !.amp = a * @]]

\* np.zeros(n)
Zeros(n) == <<Seg("zeros", n, 0, <<>>)>>

\* len(generate_single_chirp(samp_rate))
generate_single_chirp(sr) ==
    LET wave == MulDivUS(63, sr) + MulDivUS(4, sr) + MulDivUS(33, sr)
        target_len == MulDivUS(100, sr)
    IN  wave + Max(0, target_len - wave)

\* one chirp per bit, its sign chosen by the bit
get_payload_chirps(bits, sr) ==
    <<Seg("chirps", Len(bits) * generate_single_chirp(sr), 1, bits)>>

\* ========================================================================
\* j2497_keyhole.py
\* ========================================================================
LAMP_ON == <<10, 0>>
DEFAULT_ALLOWED_MESSAGES == <<LAMP_ON>>

WABCO == [label |-> "wabco", expected_delays |-> <<450, 417>>,
          extra_stop_bits |-> <<2, 2>>, expected_phases |-> <<-1, 1>>]
BENDIX == [label |-> "bendix", expected_delays |-> <<472, 417, 406>>,
           extra_stop_bits |-> <<1, 0>>, expected_phases |-> <<-1, 1>>]
DEFAULT_SUPPLIER_PARAMETERS == <<WABCO, BENDIX>>

DOOR_MIDS == << <<137>> >>
\* the body with one more AA byte
DOOR_BODY_ElevenAA ==
    <<254, 7, 87, 170, 170, 170, 170, 170, 170, 170, 170, 170, 170, 170, 167, 28>>
DOOR_BODY == <<254, 7, 87, 170, 170, 170, 170, 170, 170, 170, 170, 170, 170, 167, 28>>
DOOR_CHECKSUM == <<204>>

\* _get_jam raises when asked for no samples (chirp divides by t1 = 0) or a
\* negative count (linspace rejects it)
JamRaises(duration_samples) == duration_samples <= 0

_get_jam(sr, duration_samples) == <<Seg("jam", duration_samples, 1, <<>>)>>

DoorBits(mid) == get_payload_bits(mid \o DOOR_BODY, Some(DOOR_CHECKSUM), None, FALSE)

_door_signals(sr) == [i \in 1..Len(DOOR_MIDS) |-> get_payload_chirps(DoorBits(DOOR_MIDS[i]), sr)]

\* the start without the sync symbol time taken off
KeyholeStartMilliUS_NoSyncOff(delay_x10) ==
    delay_x10 * UART_BIT_TIME_US_x100
    + FROM_J2497_OVER_TO_UART_OVER_US_x10 * 100
    - UART_BIT_TIME_US_x100 * 10

\* keyhole_signal_start_us in 1/1000 us, for a delay in tenths of a bit time
KeyholeStartMilliUS(delay_x10) ==
    delay_x10 * UART_BIT_TIME_US_x100
    + FROM_J2497_OVER_TO_UART_OVER_US_x10 * 100
    - UART_BIT_TIME_US_x100 * 10
    - SYNC_SYMBOL_TIME_US * 1000

keyhole_signal_start_samples(delay_x10, sr) ==
    MulDivMilliUS(KeyholeStartMilliUS(delay_x10), sr)

KeyholeAmplitude(cal) == IF cal THEN 0 ELSE 1
KeyholeJamAmplitude(cal) == IF cal THEN 0 ELSE 1

blank_after_payload(sr) == Zeros(MulDivUS(TIME_AFTER_PAYLOAD_US, sr))

\* the keyhole of one (allowed_message, supplier, delay, phase)
KeyholeSignal(sr, msg, params, delay_x10, phase, cal) ==
    LET keyhole_bits == get_payload_bits(msg, None, Some(params.extra_stop_bits), TRUE)
        early_jam == Scale(KeyholeJamAmplitude(cal),
                           _get_jam(sr, keyhole_signal_start_samples(delay_x10, sr)))
        keyhole == Scale(KeyholeAmplitude(cal) * phase, get_payload_chirps(keyhole_bits, sr))
                   \o blank_after_payload(sr)
    IN  early_jam \o keyhole

\* The nested loops of _keyhole_signals, flattened in the order they run.  An
\* item stands for one step of the generator: the yield of the keyhole of
\* tuple (message, supplier, delay, phase), given by the indices, or the raise
\* of _get_jam when the early jam of a delay is built (before its phases are
\* visited).
PhaseLoop(sr, msgs, sps, mi, si, di) ==
    [pi \in 1..Len(sps[si].expected_phases) |->
        [raises |-> FALSE, tuple |-> <<mi, si, di, pi>>]]

\* the delays visited last to first
DelayLoop_Reversed(sr, msgs, sps, mi, si) ==
    Concat([k \in 1..Len(sps[si].expected_delays) |->
        LET di == Len(sps[si].expected_delays) + 1 - k
        IN  IF JamRaises(keyhole_signal_start_samples(sps[si].expected_delays[di], sr))
            THEN <<[raises |-> TRUE, tuple |-> <<mi, si, di, 0>>]>>
            ELSE PhaseLoop(sr, msgs, sps, mi, si, di)])

DelayLoop(sr, msgs, sps, mi, si) ==
    Concat([di \in 1..Len(sps[si].expected_delays) |->
        IF JamRaises(keyhole_signal_start_samples(sps[si].expected_delays[di], sr))
        THEN <<[raises |-> TRUE, tuple |-> <<mi, si, di, 0>>]>>
        ELSE PhaseLoop(sr, msgs, sps, mi, si, di)])

SupplierLoop(sr, msgs, sps, mi) ==
    Concat([si \in 1..Len(sps) |-> DelayLoop(sr, msgs, sps, mi, si)])

_keyhole_signals(sr, msgs, sps) ==
    Concat([mi \in 1..Len(msgs) |-> SupplierLoop(sr, msgs, sps, mi)])

\* the keyhole_signal yielded at an item
ItemSignal(sr, msgs, sps, cal, t) ==
    KeyholeSignal(sr, msgs[t[1]], sps[t[2]], sps[t[2]].expected_delays[t[3]],
                  sps[t[2]].expected_phases[t[4]], cal)

\* ------------------------------------------------------------------------
\* generate(): the prologue (lines 101-129), run by the first next()

Msgs == IF allowed_messages = None THEN DEFAULT_ALLOWED_MESSAGES ELSE allowed_messages[1]
Sps == IF keyhole_supplier_parameters = None THEN DEFAULT_SUPPLIER_PARAMETERS
       ELSE keyhole_supplier_parameters[1]
PeriodUs == IF period_us = None THEN DEFAULT_PERIOD_US ELSE period_us[1]

\* jam_amplitude left at 1 in calibration mode
JamAmplitude_NotSuppressed(cal) == 1

JamAmplitude(cal) == IF cal THEN 0 ELSE 1

PeriodSamples(pus, sr) == MulDivUS(pus, sr)

\* remainder = (0.5 * sample_rate) % period_samples, in half samples
Remainder_x2(sr, ps) == sr % (2 * ps)

\* x2 / 2 > alignment_limit, with alignment_limit =
\* len(SYNC_BITS) * BODY_BIT_TIME_US * sample_rate / US_PER_SEC
AboveAlignmentLimit(x2, sr) ==
    x2 * (US_PER_SEC \div (2 * Len(SYNC_BITS) * BODY_BIT_TIME_US)) > sr

\* the prologue without the sample-rate floor
ConfigCheck_NoRateFloor(sr, pus) ==
    IF ~(pus >= MIN_PERIOD_US) THEN "period"
    ELSE LET ps == PeriodSamples(pus, sr)
             rem2 == Remainder_x2(sr, ps)
         IN  IF ~AboveAlignmentLimit(rem2, sr) THEN "align_remainder"
             ELSE IF ~AboveAlignmentLimit(2 * ps - rem2, sr) THEN "align_complement"
             ELSE ""

\* the prologue without the second alignment assert
ConfigCheck_NoComplement(sr, pus) ==
    IF sr < MIN_SAMPLE_RATE THEN "sample_rate"
    ELSE IF ~(pus >= MIN_PERIOD_US) THEN "period"
    ELSE LET ps == PeriodSamples(pus, sr)
             rem2 == Remainder_x2(sr, ps)
         IN  IF ~AboveAlignmentLimit(rem2, sr) THEN "align_remainder" ELSE ""

\* the first check of the prologue that fails, "" when all pass
ConfigCheck(sr, pus) ==
    IF sr < MIN_SAMPLE_RATE THEN "sample_rate"
    ELSE IF ~(pus >= MIN_PERIOD_US) THEN "period"
    ELSE LET ps == PeriodSamples(pus, sr)
             rem2 == Remainder_x2(sr, ps)
         IN  IF ~AboveAlignmentLimit(rem2, sr) THEN "align_remainder"
             ELSE IF ~AboveAlignmentLimit(2 * ps - rem2, sr) THEN "align_complement"
             ELSE ""

\* the locals with no door counted
Locals_NoDoors ==
    IF pc = "created"
    THEN [period_samples |-> PeriodSamples(PeriodUs, sample_rate),
          jam_amplitude |-> JamAmplitude(calibration_mode),
          doors_len |-> 0]
    ELSE [period_samples |-> period_samples,
          jam_amplitude |-> jam_amplitude,
          doors_len |-> doors_len]

\* the locals of generate as the running next() sees them
Locals ==
    IF pc = "created"
    THEN [period_samples |-> PeriodSamples(PeriodUs, sample_rate),
          jam_amplitude |-> JamAmplitude(calibration_mode),
          doors_len |-> Len(_door_signals(sample_rate))]
    ELSE [period_samples |-> period_samples,
          jam_amplitude |-> jam_amplitude,
          doors_len |-> doors_len]

Resumable == pc = "loop" \/ (pc = "created" /\ ConfigCheck(sample_rate, PeriodUs) = "")

Keyholes == _keyhole_signals(sample_rate, Msgs, Sps)

KeyholeOf(item) == ItemSignal(sample_rate, Msgs, Sps, calibration_mode, item.tuple)

\* next(doors) of itertools.cycle(_door_signals(sample_rate))
NextDoor == LET doors == _door_signals(sample_rate) IN doors[(doors_pos % Len(doors)) + 1]

\* the trailing jam one sample short
PadWithJam_OneShort(signal, ps, amp, sr) ==
    signal \o Scale(amp, _get_jam(sr, ps - WLen(signal) - 1))

\* lines 134-137: door + keyhole, padded with jam to the period
PadWithJam(signal, ps, amp, sr) == signal \o Scale(amp, _get_jam(sr, ps - WLen(signal)))

Fits(signal, ps) == WLen(signal) < ps

SetLocals(L) ==
    /\ allowed_messages' = Some(Msgs)
    /\ keyhole_supplier_parameters' = Some(Sps)
    /\ period_us' = Some(PeriodUs)
    /\ period_samples' = L.period_samples
    /\ jam_amplitude' = L.jam_amplitude
    /\ doors_len' = L.doors_len

\* next(): a check of the prologue fails
GenRaiseConfig ==
    /\ pc = "created"
    /\ LET c == ConfigCheck(sample_rate, PeriodUs)
       IN  /\ c # ""
           /\ pc' = "error"
           /\ err' = c
           /\ IF c = "sample_rate"
              THEN UNCHANGED <<allowed_messages, keyhole_supplier_parameters, period_us,
                               jam_amplitude, period_samples>>
              ELSE /\ allowed_messages' = Some(Msgs)
                   /\ keyhole_supplier_parameters' = Some(Sps)
                   /\ period_us' = Some(PeriodUs)
                   /\ jam_amplitude' = JamAmplitude(calibration_mode)
                   /\ period_samples' = IF c = "period" THEN period_samples
                                        ELSE PeriodSamples(PeriodUs, sample_rate)
    /\ UNCHANGED <<sample_rate, calibration_mode, doors_len, doors_pos, keyhole_count,
                   yielded, framer_vars, drv_vars>>

\* next(): the loop takes the next keyhole and yields its frame
GenYieldKeyhole ==
    /\ Resumable
    /\ keyhole_count < Len(Keyholes)
    /\ LET L == Locals
           item == Keyholes[keyhole_count + 1]
       IN  /\ ~item.raises
           /\ LET door_n_keyhole == NextDoor \o KeyholeOf(item)
              IN  /\ Fits(door_n_keyhole, L.period_samples)
                  /\ yielded' = Append(yielded,
                        [tuple |-> item.tuple,
                         signal |-> PadWithJam(door_n_keyhole, L.period_samples,
                                               L.jam_amplitude, sample_rate)])
           /\ SetLocals(L)
    /\ keyhole_count' = keyhole_count + 1
    /\ doors_pos' = doors_pos + 1
    /\ pc' = "loop"
    /\ UNCHANGED <<sample_rate, calibration_mode, err, framer_vars, drv_vars>>

\* next(): the loop takes the next keyhole and an error ends the generator:
\* _get_jam raises inside _keyhole_signals, or the assert of line 135 fails
GenRaiseKeyhole ==
    /\ Resumable
    /\ keyhole_count < Len(Keyholes)
    /\ LET L == Locals
           item == Keyholes[keyhole_count + 1]
       IN  /\ IF item.raises
              THEN /\ err' = "jam"
                   /\ UNCHANGED <<keyhole_count, doors_pos>>
              ELSE /\ ~Fits(NextDoor \o KeyholeOf(item), L.period_samples)
                   /\ err' = "too_long"
                   /\ keyhole_count' = keyhole_count + 1
                   /\ doors_pos' = doors_pos + 1
           /\ SetLocals(L)
    /\ pc' = "error"
    /\ UNCHANGED <<sample_rate, calibration_mode, yielded, framer_vars, drv_vars>>

\* next(): the loop is exhausted, the closing door + jam frame is yielded
GenYieldClosing ==
    /\ Resumable
    /\ keyhole_count = Len(Keyholes)
    /\ LET L == Locals
           all_jam == NextDoor
       IN  /\ keyhole_count >= L.doors_len
           /\ Fits(all_jam, L.period_samples)
           /\ yielded' = Append(yielded,
                 [tuple |-> <<>>,
                  signal |-> PadWithJam(all_jam, L.period_samples, L.jam_amplitude,
                                        sample_rate)])
           /\ SetLocals(L)
    /\ doors_pos' = doors_pos + 1
    /\ pc' = "closing"
    /\ UNCHANGED <<sample_rate, calibration_mode, err, keyhole_count, framer_vars, drv_vars>>

\* next(): the loop is exhausted and an assert after it fails (lines 141, 146)
GenRaiseClosing ==
    /\ Resumable
    /\ keyhole_count = Len(Keyholes)
    /\ LET L == Locals
       IN  /\ IF ~(keyhole_count >= L.doors_len)
              THEN /\ err' = "doors_assert"
                   /\ UNCHANGED doors_pos
              ELSE /\ ~Fits(NextDoor, L.period_samples)
                   /\ err' = "too_long"
                   /\ doors_pos' = doors_pos + 1
           /\ SetLocals(L)
    /\ pc' = "error"
    /\ UNCHANGED <<sample_rate, calibration_mode, keyhole_count, yielded, framer_vars, drv_vars>>

\* next(): the return of line 151 ends the iteration
GenReturn ==
    /\ pc = "closing"
    /\ pc' = "done"
    /\ UNCHANGED <<sample_rate, allowed_messages, keyhole_supplier_parameters, period_us,
                   calibration_mode, err, period_samples, jam_amplitude, doors_len,
                   doors_pos, keyhole_count, yielded, framer_vars, drv_vars>>

\* ------------------------------------------------------------------------
\* The configurations enumerated
LONG_MESSAGE == <<137, 194, 3, 2, 181, 2, 10, 0>>
SLOW == [label |-> "slow", expected_delays |-> <<450, 1200>>,
         extra_stop_bits |-> <<0>>, expected_phases |-> <<1>>]
EARLY == [label |-> "early", expected_delays |-> <<50>>,
          extra_stop_bits |-> <<1, 0>>, expected_phases |-> <<-1, 1>>]
SILENT == [label |-> "silent", expected_delays |-> <<461>>,
           extra_stop_bits |-> <<1, 0>>, expected_phases |-> <<>>]
NODELAY == [label |-> "nodelay", expected_delays |-> <<>>,
            extra_stop_bits |-> <<1, 0>>, expected_phases |-> <<-1, 1>>]

SampleRates == {799999, 800000, 1000000, 7777777}
Periods == {None, Some(25000), Some(31000), Some(32000), Some(50000), Some(50010)}
MessageLists == {None} \cup {Some(l) : l \in SeqsUpTo({LAMP_ON, LONG_MESSAGE}, MaxMsgs)}
SupplierLists == {None} \cup
    {Some(l) : l \in SeqsUpTo({WABCO, BENDIX, SLOW, EARLY, SILENT, NODELAY}, MaxSuppliers)}

FramerIdle ==
    /\ fn = ""
    /\ payload = <<>>
    /\ checksum = None
    /\ extra_stop_bits = None
    /\ truncate_at_checksum = FALSE
    /\ preamble_mid = <<0>>
    /\ result = <<>>

\* generate(...) has been called: the generator exists, none of its code has run
\* the driver script is not run
DriverIdle ==
    /\ drv_pc = "idle"
    /\ init_globals = {}
    /\ drv_err = ""
    /\ drv_proc = "none"
    /\ drv_sink = "none"
    /\ frames = <<>>
    /\ rep = 0
    /\ fidx = 0
    /\ drv_l = 0
    /\ drv_i = 0
    /\ sent = 0
    /\ chunk = <<0, 0>>
    /\ swallowed = ""
    /\ stderr_log = <<>>

GenCreated ==
    /\ pc = "created"
    /\ err = ""
    /\ period_samples = 0
    /\ jam_amplitude = 1
    /\ doors_len = 0
    /\ doors_pos = 0
    /\ keyhole_count = 0
    /\ yielded = <<>>

Init ==
    /\ sample_rate \in SampleRates
    /\ allowed_messages \in MessageLists
    /\ keyhole_supplier_parameters \in SupplierLists
    /\ period_us \in Periods
    /\ calibration_mode \in BOOLEAN
    /\ GenCreated
    /\ FramerIdle
    /\ DriverIdle

Next ==
    \/ GenRaiseConfig
    \/ GenYieldKeyhole
    \/ GenRaiseKeyhole
    \/ GenYieldClosing
    \/ GenRaiseClosing
    \/ GenReturn

Spec == Init /\ [][Next]_vars

\* ========================================================================
\* The bit framer applied to enumerated arguments: one call per behaviour
\* ========================================================================
FramerBytes == {0, 10, 137, 170, 255}
FramerPayloads == SeqsUpTo(FramerBytes, MaxPayloadLen)
                  \cup {DOOR_MIDS[1] \o DOOR_BODY,
                        <<137, 254, 7, 87>> \o Repeat(170, 11) \o <<167, 28>>}
FramerChecksums == {None, Some(DOOR_CHECKSUM)}
FramerExtraStopBits ==
    {None} \cup {Some(v) : v \in SeqsUpTo(0..MaxExtra, MaxVecLen) \ {<<>>}}

GenIdle ==
    /\ sample_rate = 1000000
    /\ allowed_messages = None
    /\ keyhole_supplier_parameters = None
    /\ period_us = None
    /\ calibration_mode = FALSE
    /\ GenCreated

InitFramer ==
    /\ GenIdle
    /\ DriverIdle
    /\ fn = ""
    /\ result = <<>>
    /\ \/ /\ payload \in FramerPayloads
          /\ checksum \in FramerChecksums
          /\ extra_stop_bits \in FramerExtraStopBits
          /\ truncate_at_checksum \in BOOLEAN
          /\ preamble_mid = <<0>>
       \/ /\ payload = <<>>
          /\ checksum = None
          /\ extra_stop_bits = None
          /\ truncate_at_checksum = FALSE
          /\ preamble_mid \in {<<m>> : m \in 0..255}

CallGetPreambleBits ==
    /\ fn = ""
    /\ fn' = "get_preamble_bits"
    /\ result' = get_preamble_bits(preamble_mid)
    /\ UNCHANGED <<payload, checksum, extra_stop_bits, truncate_at_checksum, preamble_mid,
                   gen_vars, drv_vars>>

CallGetChecksumBits ==
    /\ fn = ""
    /\ fn' = "get_checksum_bits"
    /\ result' = get_checksum_bits(payload)
    /\ UNCHANGED <<payload, checksum, extra_stop_bits, truncate_at_checksum, preamble_mid,
                   gen_vars, drv_vars>>

CallGetPayloadBits ==
    /\ fn = ""
    /\ fn' = "get_payload_bits"
    /\ result' = get_payload_bits(payload, checksum, extra_stop_bits, truncate_at_checksum)
    /\ UNCHANGED <<payload, checksum, extra_stop_bits, truncate_at_checksum, preamble_mid,
                   gen_vars, drv_vars>>

\* the call of get_payload_bits that _door_signals makes for a MID
CallDoorSignals ==
    /\ fn = ""
    /\ \E i \in 1..Len(DOOR_MIDS) :
          /\ payload' = DOOR_MIDS[i] \o DOOR_BODY
          /\ result' = DoorBits(DOOR_MIDS[i])
    /\ checksum' = Some(DOOR_CHECKSUM)
    /\ extra_stop_bits' = None
    /\ truncate_at_checksum' = FALSE
    /\ fn' = "_door_signals"
    /\ UNCHANGED <<preamble_mid, gen_vars, drv_vars>>

NextFramer ==
    \/ CallGetPreambleBits
    \/ CallGetChecksumBits
    \/ CallGetPayloadBits
    \/ CallDoorSignals

SpecFramer == InitFramer /\ [][NextFramer]_vars

\* ------------------------------------------------------------------------
\* The driver script (main.py)

FL2K_SAMP_RATE == 7777777
FL2K_WARMUP_SIZE == FL2K_SAMP_RATE * 4
FL2K_COOLDOWN_SIZE == FL2K_SAMP_RATE * 4
REPEAT == 50
FL2K_WRITE_CHUNK_SIZE == 4096

\* main.py imports numpy, subprocess, errno and j2497_keyhole only: the names
\* itertools (lines 54, 68) and sys (lines 66, 80) resolve only if the
\* namespace the script is run in binds them (runpy init_globals, builtins)
ScriptGlobals == {"itertools", "sys"}

\* the errno a write to p.stdin fails with, "" for a write that succeeds: an
\* open pipe takes the write or fails; a pipe that has failed stays failed
SinkErrnos == {"EPIPE", "EINVAL", "EIO"}
WriteOutcomes == IF drv_sink = "open" THEN {""} \cup SinkErrnos ELSE {drv_sink}

\* the exception an errno surfaces as
OSErrorOf(e) == IF e = "EPIPE" THEN "BrokenPipeError" ELSE "OSError"

\* the end bound of the slice of line 73
SliceEnd(ii, ll) ==
    IF ii + FL2K_WRITE_CHUNK_SIZE < ll THEN ii + FL2K_WRITE_CHUNK_SIZE ELSE ll - 1

\* len(chirps[ii: ee]) for 0 <= ii and 0 <= ee, on an array of ll samples
SliceLen(ii, ee, ll) ==
    LET hi == IF ee < ll THEN ee ELSE ll
    IN  IF hi > ii THEN hi - ii ELSE 0

InitDriver ==
    /\ sample_rate = FL2K_SAMP_RATE
    /\ allowed_messages = None
    /\ keyhole_supplier_parameters = None
    /\ period_us = None
    /\ calibration_mode = FALSE
    /\ GenCreated
    /\ FramerIdle
    /\ drv_pc = "chain"
    /\ init_globals \in SUBSET ScriptGlobals
    /\ drv_err = ""
    /\ drv_proc = "none"
    /\ drv_sink = "none"
    /\ frames = <<>>
    /\ rep = 0
    /\ fidx = 0
    /\ drv_l = 0
    /\ drv_i = 0
    /\ sent = 0
    /\ chunk = <<0, 0>>
    /\ swallowed = ""
    /\ stderr_log = <<>>

\* lines 54-56: itertools.chain(...) over the generator; no generator code runs
DrvChain ==
    /\ drv_pc = "chain"
    /\ IF "itertools" \in init_globals
       THEN /\ drv_pc' = "popen"
            /\ UNCHANGED drv_err
       ELSE /\ drv_pc' = "raised"
            /\ drv_err' = "NameError"
    /\ UNCHANGED <<gen_vars, framer_vars, init_globals, drv_proc, drv_sink, frames, rep, fidx,
                   drv_l, drv_i, sent, chunk, swallowed, stderr_log>>

\* lines 62-64: the subprocess is started with a pipe for its stdin
DrvPopen ==
    /\ drv_pc = "popen"
    /\ drv_pc' = "warmup"
    /\ drv_proc' = "running"
    /\ drv_sink' = "open"
    /\ UNCHANGED <<gen_vars, framer_vars, init_globals, drv_err, frames, rep, fidx,
                   drv_l, drv_i, sent, chunk, swallowed, stderr_log>>

\* lines 62-63: fl2k_file cannot be started
DrvPopenFails ==
    /\ drv_pc = "popen"
    /\ drv_pc' = "raised"
    /\ drv_err' = "FileNotFoundError"
    /\ UNCHANGED <<gen_vars, framer_vars, init_globals, drv_proc, drv_sink, frames, rep, fidx,
                   drv_l, drv_i, sent, chunk, swallowed, stderr_log>>

\* line 65: t.write(warmup), outside any try
DrvWriteWarmup ==
    /\ drv_pc = "warmup"
    /\ \E e \in WriteOutcomes :
          IF e = ""
          THEN /\ drv_pc' = "warmed_up"
               /\ UNCHANGED <<drv_err, drv_sink>>
          ELSE /\ drv_pc' = "raised"
               /\ drv_err' = OSErrorOf(e)
               /\ drv_sink' = e
    /\ UNCHANGED <<gen_vars, framer_vars, init_globals, drv_proc, frames, rep, fidx,
                   drv_l, drv_i, sent, chunk, swallowed, stderr_log>>

\* line 66: sys.stderr.write('warmed-up; ...')
DrvWarmedUp ==
    /\ drv_pc = "warmed_up"
    /\ IF "sys" \in init_globals
       THEN /\ drv_pc' = "tuple"
            /\ stderr_log' = Append(stderr_log, "warmed-up")
            /\ UNCHANGED drv_err
       ELSE /\ drv_pc' = "raised"
            /\ drv_err' = "NameError"
            /\ UNCHANGED stderr_log
    /\ UNCHANGED <<gen_vars, framer_vars, init_globals, drv_proc, drv_sink, frames, rep, fidx,
                   drv_l, drv_i, sent, chunk, swallowed>>

\* line 68, tuple(chirps_chain): next() on the generator until it is exhausted
DrvTupleYieldKeyhole == drv_pc = "tuple" /\ GenYieldKeyhole
DrvTupleYieldClosing == drv_pc = "tuple" /\ GenYieldClosing
DrvTupleReturn == drv_pc = "tuple" /\ GenReturn

\* line 68: the tuple is complete (an exception of the generator is not caught)
DrvTuple ==
    /\ drv_pc = "tuple"
    /\ pc \in {"done", "error"}
    /\ IF pc = "done"
       THEN /\ frames' = [k \in 1..Len(yielded) |-> WLen(yielded[k].signal)]
            /\ rep' = 1
            /\ drv_pc' = "for"
            /\ UNCHANGED drv_err
       ELSE /\ drv_pc' = "raised"
            /\ drv_err' = err
            /\ UNCHANGED <<frames, rep>>
    /\ UNCHANGED <<gen_vars, framer_vars, init_globals, drv_proc, drv_sink, fidx,
                   drv_l, drv_i, sent, chunk, swallowed, stderr_log>>

\* the frames the for loop of line 69 has still to take
MoreFrames == frames # <<>> /\ (fidx < Len(frames) \/ rep < REPEAT)

\* lines 69-72: the loop takes the next frame of the repeated tuple
DrvNextFrame ==
    /\ drv_pc = "for"
    /\ MoreFrames
    /\ LET f == IF fidx < Len(frames) THEN fidx + 1 ELSE 1
       IN  /\ fidx' = f
           /\ rep' = IF fidx < Len(frames) THEN rep ELSE rep + 1
           /\ drv_l' = frames[f]
           /\ drv_i' = 0
           /\ sent' = 0
           /\ drv_pc' = IF frames[f] > 0 THEN "write" ELSE "for"
    /\ UNCHANGED <<gen_vars, framer_vars, init_globals, drv_err, drv_proc, drv_sink, frames,
                   chunk, swallowed, stderr_log>>

\* line 69: the repeated tuple is exhausted
DrvLoopEnd ==
    /\ drv_pc = "for"
    /\ ~MoreFrames
    /\ drv_pc' = "cooldown_msg"
    /\ UNCHANGED <<gen_vars, framer_vars, init_globals, drv_err, drv_proc, drv_sink, frames,
                   rep, fidx, drv_l, drv_i, sent, chunk, swallowed, stderr_log>>

\* lines 72-73: one chunk is written
DrvWriteChunk ==
    /\ drv_pc = "write"
    /\ "" \in WriteOutcomes
    /\ LET e == SliceEnd(drv_i, drv_l)
       IN  /\ chunk' = <<drv_i, e>>
           /\ sent' = sent + SliceLen(drv_i, e, drv_l)
    /\ drv_i' = drv_i + FL2K_WRITE_CHUNK_SIZE
    /\ drv_pc' = IF drv_i + FL2K_WRITE_CHUNK_SIZE < drv_l THEN "write" ELSE "for"
    /\ UNCHANGED <<gen_vars, framer_vars, init_globals, drv_err, drv_proc, drv_sink, frames,
                   rep, fidx, drv_l, swallowed, stderr_log>>

\* lines 73-76: the write fails with EPIPE or EINVAL; the handler breaks out
\* of the for loop of line 69
DrvWriteSwallowed ==
    /\ drv_pc = "write"
    /\ \E e \in WriteOutcomes \cap {"EPIPE", "EINVAL"} :
          /\ swallowed' = e
          /\ drv_sink' = e
    /\ drv_pc' = "cooldown_msg"
    /\ UNCHANGED <<gen_vars, framer_vars, init_globals, drv_err, drv_proc, frames,
                   rep, fidx, drv_l, drv_i, sent, chunk, stderr_log>>

\* lines 73-78: the write fails with another errno, which is raised again
DrvWriteReraised ==
    /\ drv_pc = "write"
    /\ \E e \in WriteOutcomes \ {"", "EPIPE", "EINVAL"} :
          /\ drv_err' = OSErrorOf(e)
          /\ drv_sink' = e
    /\ drv_pc' = "raised"
    /\ UNCHANGED <<gen_vars, framer_vars, init_globals, drv_proc, frames,
                   rep, fidx, drv_l, drv_i, sent, chunk, swallowed, stderr_log>>

\* line 80: sys.stderr.write('cooldown\n')
DrvCooldownMsg ==
    /\ drv_pc = "cooldown_msg"
    /\ IF "sys" \in init_globals
       THEN /\ drv_pc' = "cooldown"
            /\ stderr_log' = Append(stderr_log, "cooldown")
            /\ UNCHANGED drv_err
       ELSE /\ drv_pc' = "raised"
            /\ drv_err' = "NameError"
            /\ UNCHANGED stderr_log
    /\ UNCHANGED <<gen_vars, framer_vars, init_globals, drv_proc, drv_sink, frames, rep, fidx,
                   drv_l, drv_i, sent, chunk, swallowed>>

\* line 81: t.write(cooldown), outside the try of lines 71-78
DrvWriteCooldown ==
    /\ drv_pc = "cooldown"
    /\ \E e \in WriteOutcomes :
          IF e = ""
          THEN /\ drv_pc' = "close"
               /\ UNCHANGED <<drv_err, drv_sink>>
          ELSE /\ drv_pc' = "raised"
               /\ drv_err' = OSErrorOf(e)
               /\ drv_sink' = e
    /\ UNCHANGED <<gen_vars, framer_vars, init_globals, drv_proc, frames, rep, fidx,
                   drv_l, drv_i, sent, chunk, swallowed, stderr_log>>

\* line 83: p.stdin.close()
DrvClose ==
    /\ drv_pc = "close"
    /\ drv_sink' = "closed"
    /\ drv_pc' = "kill"
    /\ UNCHANGED <<gen_vars, framer_vars, init_globals, drv_err, drv_proc, frames, rep, fidx,
                   drv_l, drv_i, sent, chunk, swallowed, stderr_log>>

\* line 84: p.kill()
DrvKill ==
    /\ drv_pc = "kill"
    /\ drv_proc' = "killed"
    /\ drv_pc' = "wait"
    /\ UNCHANGED <<gen_vars, framer_vars, init_globals, drv_err, drv_sink, frames, rep, fidx,
                   drv_l, drv_i, sent, chunk, swallowed, stderr_log>>

\* line 85: p.wait(); the script ends
DrvWait ==
    /\ drv_pc = "wait"
    /\ drv_proc' = "reaped"
    /\ drv_pc' = "exit"
    /\ UNCHANGED <<gen_vars, framer_vars, init_globals, drv_err, drv_sink, frames, rep, fidx,
                   drv_l, drv_i, sent, chunk, swallowed, stderr_log>>

NextDriver ==
    \/ DrvChain
    \/ DrvPopen
    \/ DrvPopenFails
    \/ DrvWriteWarmup
    \/ DrvWarmedUp
    \/ DrvTupleYieldKeyhole
    \/ DrvTupleYieldClosing
    \/ DrvTupleReturn
    \/ DrvTuple
    \/ DrvNextFrame
    \/ DrvLoopEnd
    \/ DrvWriteChunk
    \/ DrvWriteSwallowed
    \/ DrvWriteReraised
    \/ DrvCooldownMsg
    \/ DrvWriteCooldown
    \/ DrvClose
    \/ DrvKill
    \/ DrvWait

SpecDriver == InitDriver /\ [][NextDriver]_vars

\* ========================================================================
\* Properties of the bit framer
\* ========================================================================
\* the 8 bits of a byte, least significant first
LsbBits(b) == [i \in 1..8 |-> (b \div (2 ^ (i - 1))) % 2]

\* extra(i) for the 0-based byte index i: the vector's element i, its last
\* element once the vector is exhausted
StatedExtra(esb, i) == IF i < Len(esb) THEN esb[i + 1] ELSE esb[Len(esb)]

\* every byte framed 0, LSB-first bits, 1, then extra(i) stop bits
StatedFraming(p, esb) ==
    Concat([i \in 1..Len(p) |->
        <<0>> \o LsbBits(p[i]) \o <<1>> \o Repeat(1, StatedExtra(esb, i - 1))])

\* the checksum byte framed 0, LSB-first bits, 1, then the end sync
StatedTail(csum) == <<0>> \o LsbBits(csum) \o <<1>> \o <<1, 1, 1, 1, 1, 1, 1>>

StatedChecksum(p) == (256 - (SumSeq(p) % 256)) % 256

IsPrefix(s, t) == Len(s) <= Len(t) /\ SubSeq(t, 1, Len(s)) = s

\* C6: for every payload and non-empty extra_stop_bits vector, get_payload_bits
\* frames byte i as 0, 8 bits LSB first, 1, then extra(i) further 1 bits, with
\* extra(i) = extra_stop_bits[i] for i < len(extra_stop_bits), else its last
\* element (0A 00 with [1, 0]: one extra stop bit after byte 0, none after byte 1).
C6_ExtraStopBitsPerByte ==
    (fn = "get_payload_bits" /\ extra_stop_bits # None)
        => IsPrefix(<<1, 1, 1, 1, 1>> \o StatedFraming(payload, extra_stop_bits[1]), result)

\* C7: for every payload, the checksum byte of get_checksum_bits is in 0..255,
\* equals (256 - sum mod 256) mod 256, and sum + checksum = 0 (mod 256).
C7_ChecksumCancelsSum ==
    fn = "get_checksum_bits"
        => /\ Len(result) = 8
           /\ \A i \in 1..Len(result) : result[i] \in {0, 1}
           /\ IntBase2(result) \in 0..255
           /\ IntBase2(result) = StatedChecksum(payload)
           /\ (SumSeq(payload) + IntBase2(result)) % 256 = 0

C7_Witness ==
    /\ fn = "get_checksum_bits"
    /\ SumSeq(payload) > 255
    /\ IntBase2(result) # 0

\* the byte sequence the door is stated to frame: 89 FE 07 57, eleven AA, A7 1C
StatedDoor17 == <<137, 254, 7, 87>> \o Repeat(170, 11) \o <<167, 28>>
\* the byte sequence of 16 bytes: 89 FE 07 57, ten AA, A7 1C
StatedDoor16 == <<137, 254, 7, 87>> \o Repeat(170, 10) \o <<167, 28>>

\* C8 as stated: the checksum of the 17 bytes 89 FE 07 57, 11 x AA, A7 1C is
\* 0xB4; the door frames that sequence and carries checksum 0xCC, which is
\* not the checksum of its bytes.
C8_DoorChecksum17 ==
    /\ (fn = "get_checksum_bits" /\ payload = StatedDoor17) => IntBase2(result) = 180
    /\ fn = "_door_signals"
          => /\ payload = StatedDoor17
             /\ result = <<1, 1, 1, 1, 1>> \o StatedFraming(payload, <<0>>) \o StatedTail(204)
             /\ StatedChecksum(payload) # 204

\* C8 amended: the checksum of the 16 bytes 89 FE 07 57, 10 x AA, A7 1C is
\* 0xB4; the door frames that sequence (MID 0x89 and a 15-byte body) and
\* carries checksum 0xCC, which is not the checksum of its bytes.
C8_DoorChecksum16 ==
    /\ (fn = "get_checksum_bits" /\ payload = StatedDoor16) => IntBase2(result) = 180
    /\ fn = "_door_signals"
          => /\ payload = StatedDoor16
             /\ Len(payload) = 16
             /\ result = <<1, 1, 1, 1, 1>> \o StatedFraming(payload, <<0>>) \o StatedTail(204)
             /\ StatedChecksum(payload) = 180
             /\ IntBase2(get_checksum_bits(payload)) # 204

C8_Witness ==
    /\ fn = "_door_signals"
    /\ payload = StatedDoor16
    /\ Len(result) = 182

\* C9 as stated: get_preamble_bits(m) has length 11 and is 0,0,0, the bits of
\* m LSB first, 1.
C9_PreambleLength11 ==
    fn = "get_preamble_bits"
        => /\ Len(result) = 11
           /\ result = <<0, 0, 0>> \o LsbBits(preamble_mid[1]) \o <<1>>

\* C9 amended: get_preamble_bits(m) has length 12 and is 0,0,0, the bits of
\* m LSB first, 1.
C9_PreambleLength12 ==
    fn = "get_preamble_bits"
        => /\ Len(result) = 12
           /\ result = <<0, 0, 0>> \o LsbBits(preamble_mid[1]) \o <<1>>

C9_Witness ==
    /\ fn = "get_preamble_bits"
    /\ preamble_mid = <<10>>
    /\ result = <<0, 0, 0, 0, 1, 0, 1, 0, 0, 0, 0, 1>>

\* C10: with extra_stop_bits = [k], the untruncated stream is start sync, each
\* byte framed with k extra stop bits, the checksum byte (computed, or the
\* one-byte override) framed without extra stop bits, end sync, of length
\* 22 + (10 + k) * len(p); truncated, it stops after the last data byte, of
\* length 5 + (10 + k) * len(p).
C10_StreamLength ==
    (fn = "get_payload_bits" /\ extra_stop_bits # None /\ Len(extra_stop_bits[1]) = 1)
        => LET k == extra_stop_bits[1][1]
               body == <<1, 1, 1, 1, 1>> \o StatedFraming(payload, <<k>>)
               csum == IF checksum = None THEN StatedChecksum(payload) ELSE checksum[1][1]
           IN  IF truncate_at_checksum
               THEN /\ result = body
                    /\ Len(result) = 5 + (10 + k) * Len(payload)
               ELSE /\ result = body \o StatedTail(csum)
                    /\ Len(result) = 22 + (10 + k) * Len(payload)

C10_Witness ==
    /\ fn = "get_payload_bits"
    /\ extra_stop_bits = Some(<<2>>)
    /\ Len(payload) = 2
    /\ ~truncate_at_checksum
    /\ Len(result) = 46

\* ========================================================================
\* Properties of generate()
\* ========================================================================
\* round(a * b / 1e6), halves to the even neighbour
RoundMulDivUS(a, b) ==
    LET q == MulDivUS(a, b)
        r == MulModUS(a, b)
    IN  IF 2 * r > 1000000 THEN q + 1
        ELSE IF 2 * r < 1000000 THEN q
        ELSE q + (q % 2)

\* C1 as stated: every yielded frame, keyhole or closing, has exactly
\* round(period_us * sample_rate / 1e6) samples.
C1_FrameLengthRounded ==
    \A i \in 1..Len(yielded) :
        WLen(yielded[i].signal) = RoundMulDivUS(PeriodUs, sample_rate)

\* C1 amended: every yielded frame, keyhole or closing, has exactly
\* int(period_us * sample_rate / 1e6) samples, the quotient truncated and not
\* rounded (248888 at 7777777 Hz and 32000 us).
C1_FrameLengthTruncated ==
    \A i \in 1..Len(yielded) :
        /\ WLen(yielded[i].signal) = MulDivUS(PeriodUs, sample_rate)
        /\ (sample_rate = 7777777 /\ PeriodUs = 32000)
              => WLen(yielded[i].signal) = 248888
        /\ (sample_rate = 1000000 /\ PeriodUs = 32000)
              => WLen(yielded[i].signal) = 32000

C1_Witness ==
    /\ pc = "done"
    /\ sample_rate = 7777777
    /\ Len(yielded) >= 2
    /\ \A i \in 1..Len(yielded) : WLen(yielded[i].signal) = 248888

\* lexicographic order of the loop indices (message, supplier, delay, phase)
LexLess(a, b) ==
    \E k \in 1..4 : a[k] < b[k] /\ \A j \in 1..(k - 1) : a[j] = b[j]

\* the (message, supplier, delay, phase) index tuples of the configuration
StatedTuples ==
    UNION {UNION {UNION {{<<mi, si, di, pi>> :
                            pi \in 1..Len(Sps[si].expected_phases)} :
                         di \in 1..Len(Sps[si].expected_delays)} :
                  si \in 1..Len(Sps)} :
           mi \in 1..Len(Msgs)}

StatedFrameCount ==
    1 + Len(Msgs) * SumSeq([si \in 1..Len(Sps) |->
            Len(Sps[si].expected_delays) * Len(Sps[si].expected_phases)])

IsClosingFrame(f) == f.tuple = <<>>

\* the frame is the door, early jam of the tuple's delay, the tuple's message
\* at the tuple's phase, the blank window and trailing jam
CarriesTuple(f) ==
    LET t == f.tuple
        params == Sps[t[2]]
    IN  /\ Len(f.signal) = 5
        /\ f.signal[1].kind = "chirps"
        /\ f.signal[2].kind = "jam"
        /\ f.signal[2].n = keyhole_signal_start_samples(params.expected_delays[t[3]], sample_rate)
        /\ f.signal[3].kind = "chirps"
        /\ f.signal[3].bits = get_payload_bits(Msgs[t[1]], None, Some(params.extra_stop_bits), TRUE)
        /\ f.signal[3].amp = (IF calibration_mode THEN 0 ELSE params.expected_phases[t[4]])
        /\ f.signal[4].kind = "zeros"
        /\ f.signal[5].kind = "jam"

StatedRateTooLow == sample_rate < 800000
StatedPeriodTooShort == PeriodUs < 32000
\* with ps the frame length, remainder = (0.5 * sample_rate) mod ps and
\* align_limit = 5 * 100 * sample_rate / 1e6:  remainder > align_limit and
\* ps - remainder > align_limit (both sides doubled and scaled by 1000)
StatedAligned(ps) ==
    LET remainder_x2 == sample_rate % (2 * ps)
    IN  /\ 1000 * remainder_x2 > sample_rate
        /\ 1000 * (2 * ps - remainder_x2) > sample_rate
StatedPrologueError ==
    \/ StatedRateTooLow
    \/ StatedPeriodTooShort
    \/ ~StatedAligned(MulDivUS(PeriodUs, sample_rate))

\* C3 as stated: a sample rate or period below the floor, a period aligned
\* with the LAMP cycle, or an over-long tuple anywhere in the enumeration is
\* raised before any frame: no frame is ever yielded.
C3_FailFastNoFrame ==
    (StatedPrologueError \/ err = "too_long") => yielded = <<>>

\* C3 amended: nothing is checked when the generator is constructed.  A
\* sample rate or period below the floor or an aligned period is raised by
\* the first next(), before any frame, so no frame is ever yielded.  An
\* over-long tuple is raised only when its own frame is composed: the frames
\* of all tuples before it have been yielded, none for it or after it.
C3_LazyConfigErrors ==
    /\ pc = "created" => (err = "" /\ yielded = <<>>)
    /\ StatedPrologueError
          => /\ yielded = <<>>
             /\ keyhole_count = 0
             /\ pc \in {"created", "error"}
             /\ pc = "error"
                   => err \in {"sample_rate", "period", "align_remainder", "align_complement"}
    /\ err = "too_long"
          => /\ pc = "error"
             /\ ~StatedPrologueError
             /\ keyhole_count >= 1
             /\ Len(yielded) = keyhole_count - 1
             /\ \A i \in 1..Len(yielded) : yielded[i].tuple = Keyholes[i].tuple
             /\ WLen(_door_signals(sample_rate)[1] \o KeyholeOf(Keyholes[keyhole_count]))
                    >= period_samples
    /\ pc = "error" => (err # "" /\ \A i \in 1..Len(yielded) : ~IsClosingFrame(yielded[i]))

C3_Witness ==
    /\ pc = "error"
    /\ err = "too_long"
    /\ Len(yielded) >= 1

\* C4: a frame is yielded only if sample_rate >= 800000, period_us >= 32000
\* and, with ps the frame length, both alignment inequalities hold; a
\* configuration violating one of them raises and yields nothing (25000 us
\* and 50000 us at 1 MHz).
C4_YieldOnlyIfAccepted ==
    /\ yielded # <<>>
          => /\ sample_rate >= 800000
             /\ PeriodUs >= 32000
             /\ StatedAligned(WLen(yielded[1].signal))
    /\ (pc # "created" /\ StatedPrologueError) => (pc = "error" /\ yielded = <<>>)
    /\ (pc # "created" /\ sample_rate = 1000000 /\ PeriodUs \in {25000, 50000})
          => (pc = "error" /\ yielded = <<>>)

C4_Witness ==
    /\ yielded # <<>>
    /\ sample_rate = 800000
    /\ PeriodUs = 32000

\* the frame that the generator yields at position i with calibration off
NormalFrame(i) ==
    LET door == _door_signals(sample_rate)[1]
        ps == MulDivUS(PeriodUs, sample_rate)
    IN  IF IsClosingFrame(yielded[i])
        THEN PadWithJam(door, ps, 1, sample_rate)
        ELSE PadWithJam(door \o ItemSignal(sample_rate, Msgs, Sps, FALSE, yielded[i].tuple),
                        ps, 1, sample_rate)

\* C5: in calibration mode every frame is the door of normal mode followed
\* only by zero-valued samples, and the frames are as many, in the same order
\* and of the same lengths as in normal mode.
C5_CalibrationSilencesAllButDoor ==
    calibration_mode
        => /\ \A i \in 1..Len(yielded) :
                 LET f == yielded[i].signal
                     g == NormalFrame(i)
                 IN  /\ f[1] = g[1]
                     /\ f[1].amp = 1
                     /\ f[1].bits = DoorBits(<<137>>)
                     /\ \A k \in 2..Len(f) : f[k].amp = 0
                     /\ Len(f) = Len(g)
                     /\ \A k \in 1..Len(f) : f[k].n = g[k].n
                     /\ WLen(f) = WLen(g)
                     /\ yielded[i].tuple = (IF i <= Len(Keyholes) THEN Keyholes[i].tuple
                                            ELSE <<>>)
           /\ pc \in {"closing", "done"} => Len(yielded) = Len(Keyholes) + 1

C5_Witness ==
    /\ calibration_mode
    /\ pc = "done"
    /\ Len(yielded) = 11
    /\ \A i \in 1..Len(yielded) : \A k \in 2..Len(yielded[i].signal) :
          yielded[i].signal[k].amp = 0

\* start_us = delay * 104.17 + 48.3 - 104.17 - 500, in 1/1000 us, for a delay
\* in tenths of a bit time
StatedStartMilliUS(delay_x10) == delay_x10 * 10417 + 48300 - 104170 - 500000

DelayOf(f) == Sps[f.tuple[2]].expected_delays[f.tuple[3]]

\* C11: a keyhole frame is, in order, the door, early jam of n_early samples,
\* the truncated allowed-message bits at one chirp per bit scaled by the
\* phase, 1700 us of silence, and jam up to the period.  n_early is the sample
\* count of start_us (4131 or 4132 for delay 45.0 at 1 MHz) and depends only
\* on the delay and the sample rate.
C11_KeyholeFrameLayout ==
    /\ \A i \in 1..Len(yielded) :
          LET f == yielded[i]
              w == f.signal
              t == f.tuple
              msg == Msgs[t[1]]
              chirp_len == MulDivUS(100, sample_rate)
          IN  ~IsClosingFrame(f)
                => /\ Len(w) = 5
                   /\ w[1] = [kind |-> "chirps", n |-> 182 * chirp_len, amp |-> 1,
                              bits |-> DoorBits(<<137>>)]
                   /\ w[2].kind = "jam"
                   /\ w[2].n = MulDivMilliUS(StatedStartMilliUS(DelayOf(f)), sample_rate)
                   /\ (sample_rate = 1000000 /\ DelayOf(f) = 450) => w[2].n \in {4131, 4132}
                   /\ w[3].kind = "chirps"
                   /\ w[3].n = Len(w[3].bits) * chirp_len
                   /\ (msg # <<>>) =>
                         IsPrefix(<<1, 1, 1, 1, 1, 0>> \o LsbBits(msg[1]) \o <<1>>, w[3].bits)
                   /\ Len(w[3].bits) >= 5 + 10 * Len(msg)
                   /\ Len(w[3].bits) <= 5 + (10 + MaxExtra) * Len(msg)
                   /\ Sps[t[2]].extra_stop_bits = <<0>>
                         => w[3].bits = <<1, 1, 1, 1, 1>> \o StatedFraming(msg, <<0>>)
                   /\ ~calibration_mode => w[3].amp = Sps[t[2]].expected_phases[t[4]]
                   /\ w[4] = [kind |-> "zeros", n |-> MulDivUS(1700, sample_rate), amp |-> 0,
                              bits |-> <<>>]
                   /\ w[5].kind = "jam"
                   /\ w[5].n >= 1
                   /\ w[1].n + w[2].n + w[3].n + w[4].n + w[5].n
                         = MulDivUS(PeriodUs, sample_rate)
    /\ \A i, j \in 1..Len(yielded) :
          (~IsClosingFrame(yielded[i]) /\ ~IsClosingFrame(yielded[j])
             /\ DelayOf(yielded[i]) = DelayOf(yielded[j]))
                => yielded[i].signal[2].n = yielded[j].signal[2].n

C11_Witness ==
    /\ pc = "done"
    /\ sample_rate = 1000000
    /\ ~calibration_mode
    /\ Len(yielded) = 11
    /\ yielded[1].signal[2].n = 4131
    /\ yielded[2].signal[2].n = 4131
    /\ yielded[3].signal[2].n = yielded[7].signal[2].n
    /\ yielded[1].signal[3].amp = -1
    /\ yielded[2].signal[3].amp = 1

====
